---- MODULE Spec2Model ----
(***************************************************************************)
(* A model of src/kong/utils.ts of wicked.kong-adapter: the               *)
(* availability gate, the statistics recorder, the retrying action         *)
(* executor (kongAction), the composite API accessors built on it, the     *)
(* object matcher, the plan cache and the consumer user names.             *)
(*                                                                         *)
(* Node.js runs one handler at a time, so every action below is one        *)
(* handler run to completion: a call made by the outside world, the        *)
(* callback of `request`, or the callback of setTimeout.                   *)
(***************************************************************************)
EXTENDS Integers, Sequences, FiniteSets, TLC

\* ------------------------------------------------------------------------
\* Program constants
\* ------------------------------------------------------------------------
KONG_MAX_ATTEMPTS == 10

\* ------------------------------------------------------------------------
\* Bounds of the model
\* ------------------------------------------------------------------------
\* Logical executor calls the outside world makes through kongGetRaw.
MaxCalls == 2
\* Logical executor calls the outside world makes through the typed wrappers.
MaxVerbCalls == 1
\* Composite operations (kongPostApi, kongPatchApi, kongDeleteApi) the outside
\* world starts.
MaxOps == 1
\* The most routes a listing fetches.
MaxRoutes == 2
\* The deepest nesting of the objects matchObjects is given.
MaxDepth == 2
\* matchObjects calls the outside world makes.
MaxMatches == 1
\* Logical executor calls made while the statistics are watched.
MaxStatCalls == 3
\* getPlans and getPlan calls the outside world makes.
MaxPlanCalls == 3
\* The most characters of an application id or an API id.
MaxIdLen == 2
\* Logical executor calls the outside world makes through kongGetGlobals.
MaxGateCalls == 3
\* Logical executor calls made while the verb counters are watched.
MaxCountCalls == 2

\* ------------------------------------------------------------------------
\* Values
\* ------------------------------------------------------------------------
\* Status codes the gateway answers with.
StatusCodes == {200, 201, 204}

\* Reasons of a transport failure (the err of the request callback).
Reasons == {"ECONNREFUSED"}

\* Identifiers the gateway generates.
ServiceIds == {"s1", "s2"}
RouteIds == {"r1"}

\* The routes of a listing: their ids, and the service ids they refer to,
\* one of them the id of no service.
ListedRouteIds == {"r1", "r2"}
ReferredServiceIds == ServiceIds \cup {"s3"}

\* The message and cluster status the adapter's pinger passes to
\* markKongAvailable.
Messages == {"ping failed"}
ClusterStatuses == {"cluster ok"}

\* JavaScript null / undefined.
Null == [k |-> "null"]
Undefined == [k |-> "undefined"]

\* A response body as `request` hands it over: a string (empty, or JSON
\* text) when the request was sent without json:true, an object otherwise.
EmptyText == [k |-> "text", empty |-> TRUE]
JsonText(v) == [k |-> "text", empty |-> FALSE, json |-> v]

\* Gateway objects.
Service(id) == [k |-> "service", id |-> id]
Route(id, sid) == [k |-> "route", id |-> id, service |-> sid]
Collection(rows) == [k |-> "collection", data |-> rows]
Api(service, route) == [k |-> "api", service |-> service, route |-> route]
Other == [k |-> "object"]

SeqsUpTo(S, n) == UNION {[1..k -> S] : k \in 0..n}

\* What GET services and GET routes may find in the gateway.
ServiceLists ==
    {<< >>, <<Service("s1")>>, <<Service("s1"), Service("s2")>>,
     <<Service("s2"), Service("s1")>>}
RouteLists ==
    SeqsUpTo({Route(id, sid) : id \in ListedRouteIds, sid \in ReferredServiceIds},
             MaxRoutes)

\* getJson(ob): a string is parsed ("" gives null), anything else passes.
getJson(ob) ==
    IF ob.k = "text"
    THEN IF ob.empty THEN Null ELSE ob.json
    ELSE ob

\* Errors handed to callbacks.
NoError == [k |-> "none"]
GateError(msg) == [k |-> "gate", status |-> 500, message |-> msg]
TransportError(reason) == [k |-> "transport", reason |-> reason]
StatusError(code, expected) == [k |-> "status", status |-> code, expected |-> expected]
NoRouteError == [k |-> "noroute"]

VARIABLES
    kongAvailable,        \* _kongAvailable
    kongMessage,          \* _kongMessage
    kongClusterStatus,    \* _kongClusterStatus
    statistics,           \* _statistics
    keepChangingActions,  \* _keepChangingActions
    calls,                \* the logical executor calls, by <<owner, number>>
    ops,                  \* the composite operations, in call order
    marked,               \* history: markKongAvailable was called from outside
    listing,              \* a kongGetAllApis call: what it fetched and handed back
    lastMatch,            \* the objects given to matchObjects, what it came to
    hist,                 \* history: resetStatistics, getStatistics and the
                          \* executor calls made since the reset
    plans,                \* _plans
    planCalls,            \* the getPlans and getPlan calls, in call order
    names                 \* pairings given to makeUserName, what it returned

vars == <<kongAvailable, kongMessage, kongClusterStatus, statistics,
          keepChangingActions, calls, ops, marked, listing, lastMatch, hist,
          plans, planCalls, names>>

\* What the executor and the composite operations leave alone.
apart == <<kongClusterStatus, marked, listing, lastMatch, plans, planCalls, names>>

\* The gateway client: everything but the plan cache and the user names.
client == <<kongAvailable, kongMessage, kongClusterStatus, statistics,
            keepChangingActions, calls, ops, marked, listing, lastMatch, hist>>

\* The program state the handlers read and write, as one value. sdkThrows is
\* no state: it says how wicked-sdk behaves in the handler that is running.
State == [avail |-> kongAvailable, msg |-> kongMessage, stats |-> statistics,
          keep |-> keepChangingActions, calls |-> calls, ops |-> ops,
          hist |-> hist, sdkThrows |-> FALSE]

Sdk(s, throws) == [s EXCEPT !.sdkThrows = throws]

Becomes(s) ==
    /\ kongAvailable' = s.avail
    /\ kongMessage' = s.msg
    /\ statistics' = s.stats
    /\ keepChangingActions' = s.keep
    /\ calls' = s.calls
    /\ ops' = s.ops
    /\ hist' = s.hist

\* defaultStatistics(); the verb counters are properties added on first use.
defaultStatistics ==
    [counters |-> [m \in {} |-> 0], actions |-> << >>, failedComparisons |-> << >>]

\* ------------------------------------------------------------------------
\* Availability gate
\* ------------------------------------------------------------------------
\* let _kongMessage = null, _kongClusterStatus = null: null is written as the
\* string it becomes in 'kong admin end point not available: ' + _kongMessage.
NullMessage == "null"

NullStatus == "null"

\* ------------------------------------------------------------------------
\* Statistics recorder
\* ------------------------------------------------------------------------
\* The history before any resetStatistics: flag is the argument of the last
\* resetStatistics ("none" before the first), got says that getStatistics
\* was called since, made lists the executor calls made since that reset,
\* mismatches counts the matchObjects calls since then that returned false,
\* returned is what the last getStatistics since then returned.
NoHistory ==
    [flag |-> "none", got |-> FALSE, made |-> << >>, mismatches |-> 0,
     returned |-> Undefined]

\* History: an executor call was made.
Logged(s, method, url, body) ==
    IF s.hist.flag = "none"
    THEN s
    ELSE [s EXCEPT !.hist.made =
             Append(@, [method |-> method, url |-> url, body |-> body])]

\* resetStatistics(keepChangingActions)
resetStatistics(s, keep) ==
    [s EXCEPT !.stats = defaultStatistics, !.keep = keep]

\* getStatistics leaving the flag as it is.
getStatistics_KeepFlag(s) ==
    [returnValue |-> [actions |-> s.stats.actions,
                      failedComparisons |-> s.stats.failedComparisons],
     state |-> s]

\* getStatistics(): the state it leaves and what it returns, the two lists
\* of _statistics as they are at the return.
getStatistics(s) ==
    [returnValue |-> [actions |-> s.stats.actions,
                      failedComparisons |-> s.stats.failedComparisons],
     state |-> [s EXCEPT !.keep = FALSE]]

\* Every call logged, GET as well.
kongActionStat_LogAll(s, method, url, body) ==
    LET old == s.stats.counters
        n == IF method \in DOMAIN old THEN old[method] ELSE 0
        counters == [m \in (DOMAIN old) \cup {method} |->
                        IF m = method THEN n + 1 ELSE old[m]]
        actions == IF s.keep
                   THEN Append(s.stats.actions,
                               [method |-> method, url |-> url, body |-> body])
                   ELSE s.stats.actions
    IN  [s EXCEPT !.stats = [@ EXCEPT !.counters = counters, !.actions = actions]]

kongActionStat(s, method, url, body) ==
    LET old == s.stats.counters
        n == IF method \in DOMAIN old THEN old[method] ELSE 0
        counters == [m \in (DOMAIN old) \cup {method} |->
                        IF m = method THEN n + 1 ELSE old[m]]
        actions == IF s.keep /\ method # "GET"
                   THEN Append(s.stats.actions,
                               [method |-> method, url |-> url, body |-> body])
                   ELSE s.stats.actions
    IN  [s EXCEPT !.stats = [@ EXCEPT !.counters = counters, !.actions = actions]]

\* ------------------------------------------------------------------------
\* Retrying action executor
\* ------------------------------------------------------------------------
\* A logical call: the arguments of kongAction, who called it (owner 0 is the
\* outside world, otherwise the composite operation, with the role of the
\* call in it), where it stands, the attempt number of the request in flight
\* or of the retry the timer holds, and what its callback was handed.
\* cbCount and status are history: the invocations of the callback and the
\* status code of the response received (0: none yet). So are sent and fails,
\* the requests issued and the transport failures seen, which are kept for
\* the calls of the outside world.
NewCall(method, url, body, expectedStatusCode, owner, role) ==
    [method |-> method, url |-> url, body |-> body,
     expected |-> expectedStatusCode, owner |-> owner, role |-> role,
     st |-> "started", attempt |-> 0, sent |-> 0, fails |-> 0, status |-> 0,
     cbCount |-> 0, err |-> NoError, result |-> Undefined]

Tracked(call) == call.owner = 0 /\ call.role = "raw"

\* Calls are named <<owner, n>>: the n-th call its owner made.
CallsOf(cs, owner) == {c \in DOMAIN cs : c[1] = owner}
NextCallOf(cs, owner) == <<owner, Cardinality(CallsOf(cs, owner)) + 1>>
NoCalls == [c \in {} |-> 0]

\* The call is over: no request and no timer holds an attempt number.
Finish(s, c) == [s EXCEPT !.calls[c].st = "done", !.calls[c].attempt = 0]

\* The comparison the other way round.
GiveUp_Inverted(attempt) == attempt < KONG_MAX_ATTEMPTS

\* if (attempt > KONG_MAX_ATTEMPTS)
GiveUp(attempt) == attempt > KONG_MAX_ATTEMPTS

\* Every retry counted as a call of its own.
tryRequest_Counting(s, c, attempt) ==
    LET s1 == [s EXCEPT !.calls[c].st = "inflight",
                        !.calls[c].attempt = attempt,
                        !.calls[c].sent = IF Tracked(s.calls[c]) THEN @ + 1 ELSE @]
    IN  IF attempt = 0
        THEN s1
        ELSE kongActionStat(s1, s.calls[c].method, s.calls[c].url, s.calls[c].body)

\* tryRequest(attempt): request(methodBody, ...) goes out.
tryRequest(s, c, attempt) ==
    [s EXCEPT !.calls[c].st = "inflight",
              !.calls[c].attempt = attempt,
              !.calls[c].sent = IF Tracked(s.calls[c]) THEN @ + 1 ELSE @]

\* What the executor does to the gate when an attempt fails and a retry is
\* scheduled: _kongAvailable = false, nothing else.
CloseGate(s, reason) == [s EXCEPT !.avail = FALSE]

\* _kongAvailable = true (on a response, and on giving up).
OpenGate(s) == [s EXCEPT !.avail = TRUE]

\* wicked.kongServiceRouteToApi(service, route) of wicked-sdk: the composite
\* of the two. Handed an undefined service or route it either throws on the
\* first property it reads or returns some composite.
SdkDefined(service, route) == service # Undefined /\ route # Undefined

\* wicked.kongApiToServiceRoute(apiConfig): the service and the route of the
\* composite; neither carries a gateway identifier yet.
NoId == "none"
kongApiToServiceRoute == [service |-> Service(NoId), route |-> Route(NoId, NoId)]

NewOp(kind, apiId) ==
    [kind |-> kind, apiId |-> apiId, pc |-> "running",
     service |-> kongApiToServiceRoute.service,
     route |-> kongApiToServiceRoute.route,
     persistedService |-> Undefined, persistedRoute |-> Undefined,
     cbCount |-> 0, err |-> NoError, result |-> Undefined]

\* The caller's callback of a composite operation is invoked.
OpCallback(s, o, err, result) ==
    [s EXCEPT !.ops[o].cbCount = @ + 1, !.ops[o].err = err,
              !.ops[o].result = result, !.ops[o].pc = "done"]

\* An exception leaves the handler (a TypeError on null or undefined).
OpThrow(s, o) == [s EXCEPT !.ops[o].pc = "thrown"]

\* The handler returns without invoking the caller's callback.
OpReturn(s, o) == [s EXCEPT !.ops[o].pc = "returned"]

\* callback(null, wicked.kongServiceRouteToApi(service, route))
OpSucceed(s, o, service, route) ==
    IF ~SdkDefined(service, route) /\ s.sdkThrows
    THEN OpThrow(s, o)
    ELSE OpCallback(s, o, NoError, Api(service, route))

\* kongPost expecting what kongGet and kongPatch expect.
ExpectedStatus_PostOk(method) ==
    CASE method = "GET" -> 200
      [] method = "POST" -> 200
      [] method = "DELETE" -> 204
      [] method = "PATCH" -> 200

\* Expected status codes of kongGet, kongPost, kongDelete, kongPatch.
ExpectedStatus(method) ==
    CASE method = "GET" -> 200
      [] method = "POST" -> 201
      [] method = "DELETE" -> 204
      [] method = "PATCH" -> 200

\* The route left as the translation gave it.
RouteOfService_Unset(route, s) == route

\* The route the service POST's result is written into:
\* route.service = { id: s.id }
RouteOfService(route, s) == [route EXCEPT !.service = s.id]

RECURSIVE kongAction(_, _, _, _, _, _, _)
RECURSIVE Deliver(_, _, _, _)
RECURSIVE OpStep(_, _, _, _, _)

\* callback(err) / callback(null, result) of the logical call c.
Deliver(s, c, err, result) ==
    LET s1 == [s EXCEPT !.calls[c].cbCount = @ + 1,
                        !.calls[c].err = err,
                        !.calls[c].result = result]
    IN  IF s1.calls[c].owner = 0
        THEN s1
        ELSE OpStep(s1, s1.calls[c].owner, s1.calls[c].role, err, result)

\* The fail-fast branch without its return: the request goes out as well.
kongAction_NoReturn(s, method, url, body, expectedStatusCode, owner, role) ==
    LET s1 == kongActionStat(Logged(s, method, url, body), method, url, body)
        c == NextCallOf(s1.calls, owner)
        new == NewCall(method, url, body, expectedStatusCode, owner, role)
        s2 == [s1 EXCEPT !.calls =
                  [x \in (DOMAIN @) \cup {c} |-> IF x = c THEN new ELSE @[x]]]
    IN  IF ~s2.avail
        THEN tryRequest(Deliver(s2, c, GateError(s2.msg), Undefined), c, 0)
        ELSE tryRequest(s2, c, 0)

kongAction(s, method, url, body, expectedStatusCode, owner, role) ==
    LET s1 == kongActionStat(Logged(s, method, url, body), method, url, body)
        c == NextCallOf(s1.calls, owner)
        new == NewCall(method, url, body, expectedStatusCode, owner, role)
        s2 == [s1 EXCEPT !.calls =
                  [x \in (DOMAIN @) \cup {c} |-> IF x = c THEN new ELSE @[x]]]
    IN  IF ~s2.avail
        THEN Deliver(Finish(s2, c), c, GateError(s2.msg), Undefined)
        ELSE tryRequest(s2, c, 0)

kongGet(s, url, owner, role) ==
    kongAction(s, "GET", url, Null, ExpectedStatus("GET"), owner, role)
kongPost(s, url, body, owner, role) ==
    kongAction(s, "POST", url, body, ExpectedStatus("POST"), owner, role)
kongDelete(s, url, owner, role) ==
    kongAction(s, "DELETE", url, Null, ExpectedStatus("DELETE"), owner, role)
kongPatch(s, url, body, owner, role) ==
    kongAction(s, "PATCH", url, body, ExpectedStatus("PATCH"), owner, role)

\* The final callback not looking at err, as kongPatchApi's does.
PostApiDone_IgnoreErr(s, o, err) ==
    OpCallback(s, o, NoError, Api(s.ops[o].persistedService, s.ops[o].persistedRoute))

\* kongPostApi, the final callback of async.waterfall.
PostApiDone(s, o, err) ==
    IF err # NoError
    THEN OpCallback(s, o, err, Undefined)
    ELSE OpSucceed(s, o, s.ops[o].persistedService, s.ops[o].persistedRoute)

\* kongPostApi, the second task of the waterfall: it runs when the service
\* POST succeeded; an error of the first task goes to the final callback.
PostApiService(s, o, err, result) ==
    IF err # NoError
    THEN PostApiDone(s, o, err)
    ELSE LET route == RouteOfService(s.ops[o].route, result)
             s1 == [s EXCEPT !.ops[o].persistedService = result,
                             !.ops[o].route = route]
         IN  kongPost(s1, <<"routes">>, route, o, "postRoute")

\* kongPostApi, the third task of the waterfall.
PostApiRoute(s, o, err, result) ==
    IF err # NoError
    THEN PostApiDone(s, o, err)
    ELSE PostApiDone([s EXCEPT !.ops[o].persistedRoute = result], o, NoError)

\* kongGetRouteForService: what its callback is handed, given what the GET
\* was answered.
kongGetRouteForService(err, routes) ==
    IF err # NoError THEN [err |-> err, route |-> Undefined]
    ELSE IF Len(routes.data) = 0 THEN [err |-> NoError, route |-> Null]
    ELSE [err |-> NoError, route |-> routes.data[1]]

\* kongPatchApi, the final callback of async.series: err is not looked at.
PatchApiDone(s, o, err) ==
    OpSucceed(s, o, s.ops[o].persistedService, s.ops[o].persistedRoute)

\* The callback without the check for a missing route: reading the id of
\* null throws.
PatchApiWithRoute_NoCheck(s, o, err, existingRoute) ==
    IF err # NoError THEN OpReturn(s, o)
    ELSE IF existingRoute = Null THEN OpThrow(s, o)
    ELSE LET route == [s.ops[o].route EXCEPT !.id = existingRoute.id,
                                             !.service = existingRoute.service]
             service == [s.ops[o].service EXCEPT !.id = s.ops[o].apiId]
             s1 == [s EXCEPT !.ops[o].route = route, !.ops[o].service = service]
         IN  kongPatch(s1, <<"services", s.ops[o].apiId>>, service, o, "patchService")

\* kongPatchApi, the callback it gives kongGetRouteForService.
PatchApiWithRoute(s, o, err, existingRoute) ==
    IF err # NoError THEN OpReturn(s, o)
    ELSE IF existingRoute = Null THEN OpCallback(s, o, NoRouteError, Undefined)
    ELSE LET route == [s.ops[o].route EXCEPT !.id = existingRoute.id,
                                             !.service = existingRoute.service]
             service == [s.ops[o].service EXCEPT !.id = s.ops[o].apiId]
             s1 == [s EXCEPT !.ops[o].route = route, !.ops[o].service = service]
         IN  kongPatch(s1, <<"services", s.ops[o].apiId>>, service, o, "patchService")

\* kongPatchApi, the first task of the series is done: on an error the
\* series ends, otherwise the second task runs.
PatchApiService(s, o, err, result) ==
    IF err # NoError
    THEN PatchApiDone(s, o, err)
    ELSE LET s1 == [s EXCEPT !.ops[o].persistedService = result]
         IN  kongPatch(s1, <<"routes", s.ops[o].route.id>>, s.ops[o].route,
                       o, "patchRoute")

\* kongPatchApi, the second task of the series is done.
PatchApiRoute(s, o, err, result) ==
    IF err # NoError
    THEN PatchApiDone(s, o, err)
    ELSE PatchApiDone([s EXCEPT !.ops[o].persistedRoute = result], o, NoError)

\* kongDeleteApi, the service DELETE is done: it was handed the callback of
\* the caller.
DeleteApiService(s, o, err, result) == OpCallback(s, o, err, result)

\* Deleting the service whatever became of the route.
DeleteApiRoute_IgnoreErr(s, o, err) ==
    kongDelete(s, <<"services", s.ops[o].apiId>>, o, "deleteService")

\* kongDeleteApi, the route DELETE is done.
DeleteApiRoute(s, o, err) ==
    IF err # NoError
    THEN OpCallback(s, o, err, Undefined)
    ELSE kongDelete(s, <<"services", s.ops[o].apiId>>, o, "deleteService")

\* kongDeleteApi, the route lookup is done. Nothing looks at the route
\* before reading its id: on null that read throws a TypeError.
DeleteApiWithRoute(s, o, err, route) ==
    IF err # NoError
    THEN OpCallback(s, o, err, Undefined)
    ELSE IF route = Null
         THEN OpThrow(s, o)
         ELSE kongDelete(s, <<"routes", route.id>>, o, "deleteRoute")

\* The continuations of the composite operations: what runs when the
\* callback of a sub-call is invoked.
OpStep(s, o, role, err, result) ==
    CASE role = "postService" -> PostApiService(s, o, err, result)
      [] role = "postRoute" -> PostApiRoute(s, o, err, result)
      [] role = "getRoute" ->
           LET got == kongGetRouteForService(err, result)
           IN  PatchApiWithRoute(s, o, got.err, got.route)
      [] role = "patchService" -> PatchApiService(s, o, err, result)
      [] role = "patchRoute" -> PatchApiRoute(s, o, err, result)
      [] role = "lookupRoute" ->
           LET got == kongGetRouteForService(err, result)
           IN  DeleteApiWithRoute(s, o, got.err, got.route)
      [] role = "deleteRoute" -> DeleteApiRoute(s, o, err)
      [] role = "deleteService" -> DeleteApiService(s, o, err, result)

\* Giving up without opening the gate again.
onRequestError_NoReopen(s, c, reason) ==
    IF GiveUp(s.calls[c].attempt)
    THEN Deliver(Finish(s, c), c, TransportError(reason), Undefined)
    ELSE [CloseGate(s, reason) EXCEPT !.calls[c].st = "waiting",
                                      !.calls[c].attempt = @ + 1]

\* The err branch of the request callback.
onRequestError(s, c, reason) ==
    IF GiveUp(s.calls[c].attempt)
    THEN Deliver(Finish(OpenGate(s), c), c, TransportError(reason), Undefined)
    ELSE \* setTimeout(tryRequest, KONG_RETRY_DELAY, attempt + 1)
         [CloseGate(s, reason) EXCEPT !.calls[c].st = "waiting",
                                      !.calls[c].attempt = @ + 1]

\* The status check without its return: the success callback runs as well.
onResponse_NoReturn(s, c, statusCode, apiBody) ==
    LET s1 == Finish(OpenGate(s), c)
        expected == s.calls[c].expected
    IN  IF expected # statusCode
        THEN Deliver(Deliver(s1, c, StatusError(statusCode, expected), Undefined),
                     c, NoError, getJson(apiBody))
        ELSE Deliver(s1, c, NoError, getJson(apiBody))

\* The response branch of the request callback.
onResponse(s, c, statusCode, apiBody) ==
    LET s1 == Finish(OpenGate(s), c)
        expected == s.calls[c].expected
    IN  IF expected # statusCode
        THEN Deliver(s1, c, StatusError(statusCode, expected), Undefined)
        ELSE Deliver(s1, c, NoError, getJson(apiBody))

\* ------------------------------------------------------------------------
\* The gateway and the network
\* ------------------------------------------------------------------------
\* The bodies the gateway may answer a call with. GET and DELETE are sent
\* without json:true, so their bodies arrive as text.
ResponseBodies(call) ==
    CASE call.role = "postService" -> {Service(id) : id \in ServiceIds}
      [] call.role = "postRoute" -> {Route(id, call.body.service) : id \in RouteIds}
      [] call.role \in {"getRoute", "lookupRoute"} ->
           LET sid == call.url[2]
           IN  {JsonText(Collection(rows)) :
                  rows \in {<< >>, <<Route("r1", sid)>>,
                            <<Route("r2", sid), Route("r1", sid)>>}}
      [] call.role = "patchService" -> {call.body}
      [] call.role = "patchRoute" -> {call.body}
      [] call.role \in {"deleteRoute", "deleteService"} -> {EmptyText}
      [] call.role \in {"raw", "plain"} ->
           CASE call.method = "GET" -> {JsonText(Other)}
             [] call.method = "DELETE" -> {EmptyText}
             [] OTHER -> {Other}

\* ------------------------------------------------------------------------
\* matchObjects
\* ------------------------------------------------------------------------
\* The objects matchObjects compares: a mapping is its properties in
\* insertion order (the order for..in visits them), each a <<name, value>>
\* pair; a value is a number, null or a mapping.
Num(v) == [k |-> "number", v |-> v]
Mapping(props) == [k |-> "mapping", props |-> props]

typeof(v) ==
    CASE v.k = "number" -> "number"
      [] v.k = "undefined" -> "undefined"
      [] v.k \in {"null", "mapping"} -> "object"

Names(ob) == {ob.props[i][1] : i \in DOMAIN ob.props}

\* ob.hasOwnProperty(prop) and ob[prop] of a mapping.
hasOwnProperty(ob, prop) == prop \in Names(ob)
Prop(ob, prop) == ob.props[CHOOSE i \in DOMAIN ob.props : ob.props[i][1] = prop][2]

\* What a call comes to is "true" or "false", what it returns, or "throws"
\* when an exception leaves it.

\* Nested objects compared with != as the scalars are: two objects are
\* different references; null equals null.
matchObjectsInternal_NoDescent(apiObject, kongObject) ==
    IF \A i \in DOMAIN apiObject.props :
          LET prop == apiObject.props[i][1]
              value == apiObject.props[i][2]
          IN  /\ hasOwnProperty(kongObject, prop)
              /\ typeof(value) = typeof(Prop(kongObject, prop))
              /\ value.k # "mapping"
              /\ value = Prop(kongObject, prop)
    THEN "true"
    ELSE "false"

RECURSIVE matchObjectsInternal(_, _)
\* for (let prop in apiObject): null has no property to visit; a mapping is
\* visited property by property, the first one here and the others by the
\* call on the rest. kongObject.hasOwnProperty throws on null.
matchObjectsInternal(apiObject, kongObject) ==
    IF apiObject.k = "null" \/ apiObject.props = << >>
    THEN "true"
    ELSE LET prop == Head(apiObject.props)[1]
             value == Head(apiObject.props)[2]
             others == Mapping(Tail(apiObject.props))
         IN  IF kongObject.k = "null" THEN "throws"
             ELSE IF ~hasOwnProperty(kongObject, prop) THEN "false"
             ELSE IF typeof(value) # typeof(Prop(kongObject, prop)) THEN "false"
             ELSE IF typeof(value) = "object"
                  THEN LET inner == matchObjectsInternal(value, Prop(kongObject, prop))
                       IN  IF inner # "true"
                           THEN inner
                           ELSE matchObjectsInternal(others, kongObject)
             ELSE IF value # Prop(kongObject, prop) THEN "false"
             ELSE matchObjectsInternal(others, kongObject)

\* matchObjects(apiObject, kongObject): the state it leaves and what it
\* comes to. An exception of matchObjectsInternal leaves it at once.
matchObjects(s, apiObject, kongObject) ==
    LET returnValue == matchObjectsInternal(apiObject, kongObject)
        pair == [apiObject |-> apiObject, kongObject |-> kongObject]
    IN  [returnValue |-> returnValue,
         state |-> IF returnValue = "false" /\ s.keep
                   THEN [s EXCEPT !.stats.failedComparisons = Append(@, pair)]
                   ELSE s]

\* The values a property holds at nesting depth d, and the mappings of that
\* depth: property a holds a number, null or a mapping one level down,
\* property b a number. Desired mappings come in both property orders.
RECURSIVE DesiredMappings(_)
DesiredMappings(d) ==
    IF d = 0
    THEN {}
    ELSE LET as == {Num(1), Null} \cup DesiredMappings(d - 1)
             bs == {Num(1), Num(2)}
         IN  {Mapping(<< >>)}
               \cup {Mapping(<<<<"a", a>>>>) : a \in as}
               \cup {Mapping(<<<<"b", b>>>>) : b \in bs}
               \cup {Mapping(<<<<"a", pr[1]>>, <<"b", pr[2]>>>>) : pr \in as \X bs}
               \cup {Mapping(<<<<"b", pr[2]>>, <<"a", pr[1]>>>>) : pr \in as \X bs}

RECURSIVE ObservedMappings(_)
ObservedMappings(d) ==
    IF d = 0
    THEN {}
    ELSE LET as == {Num(1), Null} \cup ObservedMappings(d - 1)
             bs == {Num(1), Num(2)}
         IN  {Mapping(<< >>)}
               \cup {Mapping(<<<<"a", a>>>>) : a \in as}
               \cup {Mapping(<<<<"b", b>>>>) : b \in bs}
               \cup {Mapping(<<<<"a", pr[1]>>, <<"b", pr[2]>>>>) : pr \in as \X bs}

\* ------------------------------------------------------------------------
\* Plans and user names
\* ------------------------------------------------------------------------
\* What wicked.getPlans fetches from the portal backend: the plans as they
\* are at the time of the fetch.
CatalogVersions == {"v1", "v2"}
PlanIds == {"basic", "gold"}
Catalog(v) == [k |-> "plans", plans |-> <<[id |-> "basic", v |-> v]>>]

BackendError == [k |-> "backend"]
UnknownPlanError(planId) == [k |-> "unknown plan", planId |-> planId]

\* A getPlans or getPlan call: fetched says that it asked the backend.
NewPlanCall(kind, planId) ==
    [kind |-> kind, planId |-> planId, st |-> "fetching", fetched |-> FALSE,
     cbCount |-> 0, err |-> NoError, result |-> Undefined]

PlanCallback(call, err, result) ==
    [call EXCEPT !.st = "answered", !.cbCount = @ + 1, !.err = err,
                 !.result = result]

\* internalGetPlan(plans, planId, callback)
internalGetPlan(call, catalog) ==
    LET found == {i \in DOMAIN catalog.plans : catalog.plans[i].id = call.planId}
    IN  IF found = {}
        THEN PlanCallback(call, UnknownPlanError(call.planId), Undefined)
        ELSE PlanCallback(call, NoError,
                          catalog.plans[CHOOSE i \in found : \A j \in found : i <= j])

\* The callback getPlans is given: the caller's own, or the one getPlan
\* passes.
PlansAnswer(call, err, catalog) ==
    IF call.kind = "getPlans"
    THEN PlanCallback(call, err, catalog)
    ELSE IF err # NoError
         THEN PlanCallback(call, err, Undefined)
         ELSE internalGetPlan(call, catalog)

\* getPlans(callback), up to the fetch or the answer from the cache: the
\* cache as it is and the call as it stands.
getPlans(cache, call) ==
    IF cache = Null
    THEN [call EXCEPT !.fetched = TRUE]
    ELSE PlansAnswer(call, NoError, cache)

\* Characters of an id, and the ids: texts of one to MaxIdLen characters.
Chars == {"a", "$"}
Ids == SeqsUpTo(Chars, MaxIdLen) \ {<< >>}

\* The two ids run together.
makeUserName_NoSeparator(appId, apiId) == appId \o apiId

\* makeUserName(appId, apiId)
makeUserName(appId, apiId) == appId \o <<"$">> \o apiId

\* ------------------------------------------------------------------------
\* kongGetAllApis
\* ------------------------------------------------------------------------
\* Step 1: the map from service id to service; set() replaces an earlier
\* service of the same id.
serviceIdMap(services) ==
    [id \in {services[i].id : i \in DOMAIN services} |->
        LET last == CHOOSE i \in DOMAIN services :
                        /\ services[i].id = id
                        /\ \A j \in DOMAIN services : services[j].id = id => j <= i
        IN  services[last]]

RECURSIVE kongApis_KeepUnknown(_, _)
\* Step 2 without the skip of routes whose service is unknown.
kongApis_KeepUnknown(services, routes) ==
    IF routes = << >>
    THEN << >>
    ELSE LET r == Head(routes)
             map == serviceIdMap(services)
             s == IF r.service \in DOMAIN map THEN map[r.service] ELSE Undefined
         IN  <<Api(s, r)>> \o kongApis_KeepUnknown(services, Tail(routes))

RECURSIVE kongApis(_, _)
\* Step 2: the routes in order, each with its service; a route whose
\* service id is not in the map is skipped.
kongApis(services, routes) ==
    IF routes = << >>
    THEN << >>
    ELSE LET r == Head(routes)
             map == serviceIdMap(services)
             rest == kongApis(services, Tail(routes))
         IN  IF r.service \notin DOMAIN map
             THEN rest
             ELSE <<Api(map[r.service], r)>> \o rest

\* The final callback of async.parallel: function (err, results).
onAllFetched(l, err) ==
    IF err # NoError
    THEN [l EXCEPT !.cbCount = @ + 1, !.err = err]
    ELSE [l EXCEPT !.cbCount = @ + 1,
                   !.result = Collection(kongApis(l.services, l.routes))]

\* ------------------------------------------------------------------------
\* Initial state
\* ------------------------------------------------------------------------
InitProgram ==
    /\ kongAvailable = TRUE
    /\ kongMessage = NullMessage
    /\ kongClusterStatus = NullStatus
    /\ statistics = defaultStatistics
    /\ keepChangingActions = FALSE
    /\ calls = NoCalls
    /\ ops = << >>
    /\ marked = FALSE
    /\ hist = NoHistory
    /\ plans = Null
    /\ planCalls = << >>

\* A pair of objects matchObjects has not been called with.
Comparison(apiObject, kongObject) ==
    [apiObject |-> apiObject, kongObject |-> kongObject, n |-> 0,
     returnValue |-> "none"]

\* A kongGetAllApis call whose final callback has not run: the services and
\* the routes are what its two GETs fetch.
Listing(services, routes) ==
    [services |-> services, routes |-> routes, cbCount |-> 0,
     err |-> NoError, result |-> Undefined]

\* Pairings makeUserName has not been called with.
Pairings(pairs) == [pairs |-> pairs, userNames |-> << >>]

Init ==
    /\ InitProgram
    /\ listing = Listing(<< >>, << >>)
    /\ lastMatch = Comparison(Mapping(<< >>), Mapping(<< >>))
    /\ names = Pairings(<< >>)

\* Two pairings of an application id and an API id.
InitNames ==
    /\ InitProgram
    /\ listing = Listing(<< >>, << >>)
    /\ lastMatch = Comparison(Mapping(<< >>), Mapping(<< >>))
    /\ names \in {Pairings(<<first, second>>) :
                     first \in Ids \X Ids, second \in Ids \X Ids}

\* The gateway holds any of the service lists and up to MaxRoutes routes.
InitList ==
    /\ InitProgram
    /\ listing \in {Listing(services, routes) :
                       services \in ServiceLists, routes \in RouteLists}
    /\ lastMatch = Comparison(Mapping(<< >>), Mapping(<< >>))
    /\ names = Pairings(<< >>)

\* The objects to compare: any desired and any observed mapping.
InitMatch ==
    /\ InitProgram
    /\ listing = Listing(<< >>, << >>)
    /\ lastMatch \in {Comparison(apiObject, kongObject) :
                         apiObject \in DesiredMappings(MaxDepth),
                         kongObject \in ObservedMappings(MaxDepth)}
    /\ names = Pairings(<< >>)

\* The objects to compare: a pair that matches or one that does not.
InitStats ==
    /\ InitProgram
    /\ listing = Listing(<< >>, << >>)
    /\ lastMatch \in {Comparison(Mapping(<<<<"b", Num(1)>>>>), kongObject) :
                         kongObject \in {Mapping(<<<<"b", Num(1)>>>>),
                                         Mapping(<<<<"b", Num(2)>>>>)}}
    /\ names = Pairings(<< >>)

\* ------------------------------------------------------------------------
\* Calls from the outside world
\* ------------------------------------------------------------------------
RawCalls == Cardinality(CallsOf(calls, 0))

\* kongGetRaw(url)
KongGetRaw ==
    /\ RawCalls < MaxCalls
    /\ Becomes(kongGet(State, <<"status">>, 0, "raw"))
    /\ UNCHANGED apart

\* kongGetConsumerByName(username)
KongGetConsumerByName ==
    /\ RawCalls < MaxVerbCalls
    /\ Becomes(kongGet(State, <<"consumers", "c1">>, 0, "raw"))
    /\ UNCHANGED apart

\* kongPostConsumer(consumer)
KongPostConsumer ==
    /\ RawCalls < MaxVerbCalls
    /\ Becomes(kongPost(State, <<"consumers">>, Other, 0, "raw"))
    /\ UNCHANGED apart

\* kongPatchConsumer(consumerId, consumer)
KongPatchConsumer ==
    /\ RawCalls < MaxVerbCalls
    /\ Becomes(kongPatch(State, <<"consumers", "c1">>, Other, 0, "raw"))
    /\ UNCHANGED apart

\* kongDeleteConsumer(consumerId)
KongDeleteConsumer ==
    /\ RawCalls < MaxVerbCalls
    /\ Becomes(kongDelete(State, <<"consumers", "c1">>, 0, "raw"))
    /\ UNCHANGED apart

\* markKongAvailable(kongAvailable, kongMessage, clusterStatus)
MarkKongAvailable ==
    \E available \in BOOLEAN, message \in Messages, status \in ClusterStatuses :
        /\ kongAvailable' = available
        /\ kongMessage' = message
        /\ kongClusterStatus' = status
        /\ marked' = TRUE
        /\ UNCHANGED <<statistics, keepChangingActions, calls, ops, listing,
                       lastMatch, hist, plans, planCalls, names>>

\* kongPostApi(apiConfig)
KongPostApi ==
    /\ Len(ops) < MaxOps
    /\ LET o == Len(ops) + 1
           s == [State EXCEPT !.ops = Append(@, NewOp("postApi", NoId))]
       IN  Becomes(kongPost(s, <<"services">>, s.ops[o].service, o, "postService"))
    /\ UNCHANGED apart

\* kongPatchApi(apiId, apiConfig)
KongPatchApi ==
    /\ Len(ops) < MaxOps
    /\ \E apiId \in ServiceIds :
         LET o == Len(ops) + 1
             s == [State EXCEPT !.ops = Append(@, NewOp("patchApi", apiId))]
         IN  Becomes(kongGet(s, <<"services", apiId, "routes">>, o, "getRoute"))
    /\ UNCHANGED apart

\* kongGetAllApis(), its final callback: the two GETs have fetched
\* listing.services and listing.routes, or one of them has failed as an
\* executor call may.
GetAllApisFetched ==
    /\ listing.cbCount = 0
    /\ \E err \in {NoError, GateError(kongMessage)}
                 \cup {TransportError(reason) : reason \in Reasons}
                 \cup {StatusError(code, 200) : code \in StatusCodes \ {200}} :
         listing' = onAllFetched(listing, err)
    /\ UNCHANGED <<kongAvailable, kongMessage, kongClusterStatus, statistics,
                   keepChangingActions, calls, ops, marked, lastMatch, hist,
                   plans, planCalls, names>>

\* matchObjects(apiObject, kongObject)
MatchObjects ==
    /\ lastMatch.n < MaxMatches
    /\ LET m == matchObjects(State, lastMatch.apiObject, lastMatch.kongObject)
       IN  /\ Becomes([m.state EXCEPT !.hist.mismatches =
                           IF hist.flag # "none" /\ m.returnValue = "false"
                           THEN @ + 1 ELSE @])
           /\ lastMatch' = [lastMatch EXCEPT !.n = @ + 1,
                                              !.returnValue = m.returnValue]
    /\ UNCHANGED <<kongClusterStatus, marked, listing, plans, planCalls, names>>

\* resetStatistics(keepChangingActions)
ResetStatistics ==
    \E keep \in BOOLEAN :
        /\ Becomes([resetStatistics(State, keep) EXCEPT
                        !.hist = [NoHistory EXCEPT
                                     !.flag = IF keep THEN "true" ELSE "false"]])
        /\ UNCHANGED apart

\* getStatistics()
GetStatistics ==
    /\ LET g == getStatistics(State)
       IN  Becomes([g.state EXCEPT !.hist.got = TRUE,
                                   !.hist.returned = g.returnValue])
    /\ UNCHANGED apart

\* kongGetGlobals()
KongGetGlobals ==
    /\ RawCalls < MaxGateCalls
    /\ Becomes(kongGet(State, << >>, 0, "plain"))
    /\ UNCHANGED apart

\* kongGetAllConsumers()
KongGetAllConsumers ==
    /\ RawCalls < MaxCountCalls
    /\ Becomes(kongGet(State, <<"consumers">>, 0, "plain"))
    /\ UNCHANGED apart

\* kongPostApiPlugin(apiId, plugin)
KongPostApiPlugin ==
    /\ RawCalls < MaxCountCalls
    /\ Becomes(kongPost(State, <<"services", "s1", "plugins">>, Other, 0, "plain"))
    /\ UNCHANGED apart

\* kongGetStatus()
KongGetStatus ==
    /\ RawCalls < MaxStatCalls
    /\ Becomes(kongGet(State, <<"status">>, 0, "raw"))
    /\ UNCHANGED apart

\* kongPostGlobalPlugin(plugin)
KongPostGlobalPlugin ==
    /\ RawCalls < MaxStatCalls
    /\ Becomes(kongPost(State, <<"plugins">>, Other, 0, "raw"))
    /\ UNCHANGED apart

\* kongPatchApiPlugin(apiId, pluginId, plugin)
KongPatchApiPlugin ==
    /\ RawCalls < MaxStatCalls
    /\ Becomes(kongPatch(State, <<"plugins", "p1">>, Other, 0, "raw"))
    /\ UNCHANGED apart

\* kongDeletePlugin(pluginId)
KongDeletePlugin ==
    /\ RawCalls < MaxStatCalls
    /\ Becomes(kongDelete(State, <<"plugins", "p1">>, 0, "raw"))
    /\ UNCHANGED apart

\* getPlans(callback)
GetPlans ==
    /\ Len(planCalls) < MaxPlanCalls
    /\ planCalls' = Append(planCalls, getPlans(plans, NewPlanCall("getPlans", "none")))
    /\ UNCHANGED <<plans, names>>
    /\ UNCHANGED client

\* getPlan(planId, callback)
GetPlan ==
    /\ Len(planCalls) < MaxPlanCalls
    /\ \E planId \in PlanIds :
         planCalls' = Append(planCalls, getPlans(plans, NewPlanCall("getPlan", planId)))
    /\ UNCHANGED <<plans, names>>
    /\ UNCHANGED client

\* The callback of wicked.getPlans runs with the plans.
PlansFetched(i) ==
    /\ i \in DOMAIN planCalls
    /\ planCalls[i].st = "fetching"
    /\ \E v \in CatalogVersions :
         /\ plans' = Catalog(v)
         /\ planCalls' = [planCalls EXCEPT ![i] = PlansAnswer(@, NoError, Catalog(v))]
    /\ UNCHANGED names
    /\ UNCHANGED client

\* The callback of wicked.getPlans runs with an error.
PlansFetchFailed(i) ==
    /\ i \in DOMAIN planCalls
    /\ planCalls[i].st = "fetching"
    /\ planCalls' = [planCalls EXCEPT ![i] = PlansAnswer(@, BackendError, Undefined)]
    /\ UNCHANGED <<plans, names>>
    /\ UNCHANGED client

\* makeUserName(appId, apiId), for the next of the pairings
MakeUserName ==
    /\ Len(names.userNames) < Len(names.pairs)
    /\ LET pair == names.pairs[Len(names.userNames) + 1]
       IN  names' = [names EXCEPT
                        !.userNames = Append(@, makeUserName(pair[1], pair[2]))]
    /\ UNCHANGED <<plans, planCalls>>
    /\ UNCHANGED client

\* kongDeleteApi(apiId)
KongDeleteApi ==
    /\ Len(ops) < MaxOps
    /\ \E apiId \in ServiceIds :
         LET o == Len(ops) + 1
             s == [State EXCEPT !.ops = Append(@, NewOp("deleteApi", apiId))]
         IN  Becomes(kongGet(s, <<"services", apiId, "routes">>, o, "lookupRoute"))
    /\ UNCHANGED apart

\* ------------------------------------------------------------------------
\* Handlers the event loop runs
\* ------------------------------------------------------------------------
\* How wicked-sdk may behave in the callback of call c: only the callbacks
\* of a composite operation's calls reach it.
SdkThrows(c) == IF c[1] = 0 THEN {FALSE} ELSE BOOLEAN

\* The request callback of call c is run with an error.
TransportFail(c) ==
    /\ c \in DOMAIN calls
    /\ calls[c].st = "inflight"
    /\ \E reason \in Reasons, throws \in SdkThrows(c) :
         Becomes(onRequestError(
             [Sdk(State, throws) EXCEPT
                 !.calls[c].fails = IF Tracked(calls[c]) THEN @ + 1 ELSE @],
             c, reason))
    /\ UNCHANGED apart

\* The request callback of call c is run with a response.
Respond(c) ==
    /\ c \in DOMAIN calls
    /\ calls[c].st = "inflight"
    /\ \E statusCode \in StatusCodes, apiBody \in ResponseBodies(calls[c]),
          throws \in SdkThrows(c) :
         Becomes(onResponse([Sdk(State, throws) EXCEPT !.calls[c].status = statusCode],
                            c, statusCode, apiBody))
    /\ UNCHANGED apart

\* The timer of call c fires: tryRequest(attempt + 1).
RetryFire(c) ==
    /\ c \in DOMAIN calls
    /\ calls[c].st = "waiting"
    /\ Becomes(tryRequest(State, c, calls[c].attempt))
    /\ UNCHANGED apart

Progress(c) == TransportFail(c) \/ Respond(c) \/ RetryFire(c)

\* ------------------------------------------------------------------------
\* Specifications
\* ------------------------------------------------------------------------
\* Executor calls, several of them at once.
Next ==
    \/ KongGetRaw
    \/ MarkKongAvailable
    \/ \E c \in DOMAIN calls : TransportFail(c)
    \/ \E c \in DOMAIN calls : Respond(c)
    \/ \E c \in DOMAIN calls : RetryFire(c)

Spec == Init /\ [][Next]_vars

\* The executor's calls alone, with the scheduling Node.js gives them: every
\* issued request fails or is answered (the latest after KONG_TIMEOUT), and
\* every timer fires.
NextLive ==
    \/ KongGetRaw
    \/ \E c \in DOMAIN calls : TransportFail(c)
    \/ \E c \in DOMAIN calls : Respond(c)
    \/ \E c \in DOMAIN calls : RetryFire(c)

LiveSpec ==
    Init /\ [][NextLive]_vars /\ \A n \in 1..MaxCalls : WF_vars(Progress(<<0, n>>))

\* Executor calls of every verb.
NextVerbs ==
    \/ KongGetConsumerByName
    \/ KongPostConsumer
    \/ KongPatchConsumer
    \/ KongDeleteConsumer
    \/ MarkKongAvailable
    \/ \E c \in DOMAIN calls : TransportFail(c)
    \/ \E c \in DOMAIN calls : Respond(c)
    \/ \E c \in DOMAIN calls : RetryFire(c)

SpecVerbs == Init /\ [][NextVerbs]_vars

\* The composite operations.
NextApi ==
    \/ KongPostApi
    \/ KongPatchApi
    \/ MarkKongAvailable
    \/ \E c \in DOMAIN calls : TransportFail(c)
    \/ \E c \in DOMAIN calls : Respond(c)
    \/ \E c \in DOMAIN calls : RetryFire(c)

SpecApi == Init /\ [][NextApi]_vars

\* Deleting APIs.
NextDelete ==
    \/ KongDeleteApi
    \/ MarkKongAvailable
    \/ \E c \in DOMAIN calls : TransportFail(c)
    \/ \E c \in DOMAIN calls : Respond(c)
    \/ \E c \in DOMAIN calls : RetryFire(c)

SpecDelete == Init /\ [][NextDelete]_vars

\* Listing the APIs.
NextList == GetAllApisFetched

SpecList == InitList /\ [][NextList]_vars

\* The statistics: executor calls of every verb and comparisons, between
\* resetStatistics and getStatistics. What the gateway answers does not
\* touch the statistics: the calls made here stay in flight.
NextStats ==
    \/ ResetStatistics
    \/ GetStatistics
    \/ MatchObjects
    \/ KongGetStatus
    \/ KongPostGlobalPlugin
    \/ KongPatchApiPlugin
    \/ KongDeletePlugin

SpecStats == InitStats /\ [][NextStats]_vars

\* The plan cache.
NextPlans ==
    \/ GetPlans
    \/ GetPlan
    \/ \E i \in DOMAIN planCalls : PlansFetched(i)
    \/ \E i \in DOMAIN planCalls : PlansFetchFailed(i)

SpecPlans == Init /\ [][NextPlans]_vars

\* Concurrent calls with only the executor touching the gate.
NextGate ==
    \/ KongGetGlobals
    \/ \E c \in DOMAIN calls : TransportFail(c)
    \/ \E c \in DOMAIN calls : Respond(c)
    \/ \E c \in DOMAIN calls : RetryFire(c)

SpecGate == Init /\ [][NextGate]_vars

\* The verb counters: calls that are retried, answered or fail fast, and
\* resetStatistics in between.
NextCount ==
    \/ KongGetAllConsumers
    \/ KongPostApiPlugin
    \/ ResetStatistics
    \/ \E c \in DOMAIN calls : TransportFail(c)
    \/ \E c \in DOMAIN calls : Respond(c)
    \/ \E c \in DOMAIN calls : RetryFire(c)

SpecCount == Init /\ [][NextCount]_vars

\* The user names of consumers.
NextNames == MakeUserName

SpecNames == InitNames /\ [][NextNames]_vars

\* Comparing objects, with the recording of mismatches on or off.
NextMatch ==
    \/ ResetStatistics
    \/ MatchObjects

SpecMatch == InitMatch /\ [][NextMatch]_vars

\* ------------------------------------------------------------------------
\* Properties
\* ------------------------------------------------------------------------
RawIds == CallsOf(calls, 0)

\* One call of the outside world, and nobody else touching the gate.
Isolated == Cardinality(DOMAIN calls) = 1 /\ ~marked

Succeeded(call) == call.st = "done" /\ call.cbCount = 1 /\ call.err = NoError

\* C1: a logical call issues at most 11 network attempts (0 through 10): when
\* the transport has failed 11 times no further attempt is issued or pending,
\* the caller has the transport error and the gate is available.
C1_AtMostElevenAttempts ==
    \A c \in RawIds :
        /\ calls[c].sent <= KONG_MAX_ATTEMPTS + 1
        /\ calls[c].fails >= KONG_MAX_ATTEMPTS + 1 =>
              /\ calls[c].st = "done"
              /\ calls[c].err.k = "transport"
              /\ (Isolated => kongAvailable)

\* C2: a call in isolation whose transport fails k <= 10 times and is then
\* answered with the expected status code: while it waits for a retry the gate
\* is unavailable and the caller has heard nothing, the failures do not fail
\* the call, the answer makes it succeed, and then exactly k + 1 requests
\* were issued and the gate is available.
C2_RetriesThenSuccess ==
    \A c \in RawIds :
        Isolated =>
            /\ calls[c].st = "waiting" => ~kongAvailable /\ calls[c].cbCount = 0
            /\ calls[c].fails <= KONG_MAX_ATTEMPTS => calls[c].err.k # "transport"
            /\ (calls[c].st = "done" /\ calls[c].status = calls[c].expected) =>
                  /\ Succeeded(calls[c])
                  /\ calls[c].sent = calls[c].fails + 1
                  /\ kongAvailable

\* Three failures, then success on the fourth attempt.
C2_Witness ==
    \E c \in RawIds :
        /\ Isolated
        /\ Succeeded(calls[c])
        /\ calls[c].fails = 3
        /\ calls[c].sent = 4
        /\ kongAvailable

\* The outcomes a logical call can have.
Outcomes == {"none", "status", "gate", "transport"}

C4_Witness ==
    \E c, d \in RawIds :
        /\ calls[c].err.k = "gate" /\ calls[c].sent = 0
        /\ calls[d].st = "waiting"
        /\ ~kongAvailable

\* C4: a call that starts while the gate is unavailable fails at once with the
\* 'endpoint unavailable' error (status 500, the gate's message), issues no
\* request then or later, and leaves the gate and the other calls alone.
C4_FailFastOnClosedGate ==
    /\ [][\A c \in (DOMAIN calls') \ (DOMAIN calls) :
             ~kongAvailable =>
                 /\ calls'[c].st = "done"
                 /\ calls'[c].cbCount = 1
                 /\ calls'[c].err = GateError(kongMessage)
                 /\ calls'[c].sent = 0
                 /\ kongAvailable' = kongAvailable
                 /\ kongMessage' = kongMessage
                 /\ \A d \in DOMAIN calls : calls'[d] = calls[d]]_vars
    /\ [](\A c \in RawIds :
             calls[c].err.k = "gate" => calls[c].st = "done" /\ calls[c].sent = 0)

\* C5: when a transport failure closes the gate, the gate's message is that
\* failure's reason, and a call failing fast on that gate carries it.
C5_GateCarriesReason ==
    ~marked =>
        /\ ~kongAvailable => kongMessage \in Reasons
        /\ \A c \in RawIds : calls[c].err.k = "gate" => calls[c].err.message \in Reasons

\* No call has a request in flight or a retry pending.
Quiescent == \A c \in DOMAIN calls : calls[c].st = "done"

\* Two calls ran at once, one retried and the other failed fast meanwhile,
\* and both are over.
C6_Witness ==
    /\ ~marked
    /\ Quiescent
    /\ kongAvailable
    /\ \E c, d \in RawIds :
          /\ calls[c].fails > KONG_MAX_ATTEMPTS
          /\ calls[d].err.k = "gate"

\* C6: with only the executor mutating the gate, whenever no call has a
\* request in flight or a retry pending the gate is available.
C6_GateNeverLeftClosed ==
    (~marked /\ Quiescent) => kongAvailable

\* The expected status codes as the claim lists them.
ClaimedStatus(method) ==
    CASE method = "GET" -> 200
      [] method = "POST" -> 201
      [] method = "PATCH" -> 200
      [] method = "DELETE" -> 204

\* A POST answered 200, after one failed attempt.
C7_Witness ==
    \E c \in RawIds :
        /\ calls[c].method = "POST"
        /\ calls[c].status = 200
        /\ calls[c].fails = 1
        /\ calls[c].st = "done"
        /\ calls[c].err = StatusError(200, 201)

\* C7: a response whose status code is not the verb's expected code fails the
\* call at once with an error carrying that code: the callback runs once, the
\* gate is marked available, no request is issued for it then or later.
C7_UnexpectedStatusFails ==
    /\ [][\A c \in DOMAIN calls :
             (calls[c].status = 0 /\ calls'[c].status # 0
                 /\ calls'[c].status # ClaimedStatus(calls[c].method)) =>
                 /\ calls'[c].st = "done"
                 /\ calls'[c].cbCount = 1
                 /\ calls'[c].err.k = "status"
                 /\ calls'[c].err.status = calls'[c].status
                 /\ calls'[c].sent = calls[c].sent
                 /\ kongAvailable']_vars
    /\ [][\A c \in DOMAIN calls : calls[c].st = "done" => calls'[c] = calls[c]]_vars

\* ------------------------------------------------------------------------
\* Properties of the composite operations
\* ------------------------------------------------------------------------
OpsOf(kind) == {o \in DOMAIN ops : ops[o].kind = kind}

\* The n-th executor call the composite operation o made, if it made it.
Made(o, n) == <<o, n>> \in DOMAIN calls

IsPost(call, url) == call.method = "POST" /\ call.url = url

\* The route POST is out, referring to the second of the service identifiers.
C8_Witness ==
    \E o \in OpsOf("postApi") :
        /\ Made(o, 2)
        /\ calls[<<o, 1>>].result = Service("s2")
        /\ calls[<<o, 2>>].body.service = "s2"
        /\ calls[<<o, 2>>].st = "inflight"

\* C8: kongPostApi issues the service POST first; the route POST is issued
\* only once the service POST has succeeded, and refers to the identifier
\* that POST returned; when the service POST fails no route POST is issued
\* and the caller is handed that error.
C8_ServiceThenRoute ==
    \A o \in OpsOf("postApi") :
        /\ Made(o, 1) /\ IsPost(calls[<<o, 1>>], <<"services">>)
        /\ Made(o, 2) =>
              /\ Succeeded(calls[<<o, 1>>])
              /\ IsPost(calls[<<o, 2>>], <<"routes">>)
              /\ calls[<<o, 2>>].body.service = calls[<<o, 1>>].result.id
        /\ (calls[<<o, 1>>].st = "done" /\ calls[<<o, 1>>].err # NoError) =>
              /\ ~Made(o, 2)
              /\ ops[o].pc = "done" /\ ops[o].cbCount = 1
              /\ ops[o].err = calls[<<o, 1>>].err

\* The service was created and the route POST failed.
RouteFailed(o) ==
    /\ Made(o, 2)
    /\ Succeeded(calls[<<o, 1>>])
    /\ calls[<<o, 2>>].st = "done"
    /\ calls[<<o, 2>>].err # NoError

\* The route POST was answered with an unexpected status code.
C9_Witness ==
    \E o \in OpsOf("postApi") :
        /\ RouteFailed(o)
        /\ calls[<<o, 2>>].err.k = "status"
        /\ ops[o].cbCount = 1

\* C9: when the service POST succeeds and the route POST fails, the caller is
\* handed the error, once, and the operation issues no further request: no
\* DELETE, nothing that compensates.
C9_NoRollback ==
    \A o \in OpsOf("postApi") :
        RouteFailed(o) =>
            /\ ops[o].pc = "done" /\ ops[o].cbCount = 1
            /\ ops[o].err = calls[<<o, 2>>].err
            /\ CallsOf(calls, o) = {<<o, 1>>, <<o, 2>>}
            /\ \A c \in CallsOf(calls, o) : calls[c].method # "DELETE"

\* The route lookup was answered with an empty list.
NoRouteFound(o) ==
    /\ Made(o, 1)
    /\ Succeeded(calls[<<o, 1>>])
    /\ Len(calls[<<o, 1>>].result.data) = 0

C10_Witness ==
    \E o \in OpsOf("patchApi") : NoRouteFound(o) /\ ops[o].cbCount = 1

\* C10: when the route lookup of kongPatchApi finds no route, the caller is
\* handed an error and no PATCH is issued, for the service or for a route.
C10_NoRouteNoPatch ==
    \A o \in OpsOf("patchApi") :
        NoRouteFound(o) =>
            /\ ops[o].pc = "done" /\ ops[o].cbCount = 1
            /\ ops[o].err # NoError
            /\ CallsOf(calls, o) = {<<o, 1>>}
            /\ \A c \in DOMAIN calls : c[1] = o => calls[c].method # "PATCH"

\* A sub-call of the composite operation o came back with an error.
SubCallFailed(o) ==
    \E c \in CallsOf(calls, o) : calls[c].st = "done" /\ calls[c].err # NoError

\* C11: in kongPatchApi the failure of any sub-call is surfaced: when the
\* route lookup, the service PATCH or the route PATCH fails, the callback of
\* the caller is invoked, once, with an error.
C11_PatchFailureSurfaced ==
    \A o \in OpsOf("patchApi") :
        SubCallFailed(o) => ops[o].cbCount = 1 /\ ops[o].err # NoError

IsDelete(call, url) == call.method = "DELETE" /\ call.url = url

\* The first of the routes the lookup of the operation o found.
FoundRoute(o) == calls[<<o, 1>>].result.data[1]

\* The route is gone and the service DELETE is out.
C12_Witness ==
    \E o \in OpsOf("deleteApi") :
        /\ Made(o, 3)
        /\ Succeeded(calls[<<o, 2>>])
        /\ calls[<<o, 3>>].st = "inflight"

\* C12: kongDeleteApi issues the route DELETE before the service DELETE, and
\* the service DELETE only after the route DELETE has returned successfully;
\* when the route lookup or the route DELETE fails, no service DELETE is
\* issued.
C12_RouteThenService ==
    \A o \in OpsOf("deleteApi") :
        /\ \A c \in CallsOf(calls, o) : c[2] <= 3
        /\ calls[<<o, 1>>].method = "GET"
        /\ Made(o, 2) =>
              /\ Succeeded(calls[<<o, 1>>])
              /\ IsDelete(calls[<<o, 2>>], <<"routes", FoundRoute(o).id>>)
        /\ Made(o, 3) =>
              /\ Succeeded(calls[<<o, 2>>])
              /\ IsDelete(calls[<<o, 3>>], <<"services", ops[o].apiId>>)
        /\ (\E n \in 1..2 : Made(o, n) /\ calls[<<o, n>>].st = "done"
                                        /\ calls[<<o, n>>].err # NoError) =>
              /\ ~Made(o, 3)
              /\ \A c \in CallsOf(calls, o) :
                     ~IsDelete(calls[c], <<"services", ops[o].apiId>>)

\* C13: when the route lookup of kongDeleteApi succeeds and finds no route,
\* the call ends with an error handed to the caller, and no DELETE request
\* is issued.
C13_NoRouteIsAnError ==
    \A o \in OpsOf("deleteApi") :
        NoRouteFound(o) =>
            /\ ops[o].cbCount = 1 /\ ops[o].err # NoError
            /\ CallsOf(calls, o) = {<<o, 1>>}
            /\ \A c \in CallsOf(calls, o) : calls[c].method # "DELETE"

\* ------------------------------------------------------------------------
\* Properties of kongGetAllApis
\* ------------------------------------------------------------------------
\* The route refers to a service that was fetched.
KnownService(route) ==
    \E i \in DOMAIN listing.services : listing.services[i].id = route.service

\* The fetched routes that refer to a fetched service, in route order.
KeptRoutes == SelectSeq(listing.routes, KnownService)

ListingAnswered ==
    listing.cbCount = 1 /\ listing.err = NoError

\* Two services and two routes: the first route refers to no fetched
\* service, the second to s2, and s1 has no route.
C14_Witness ==
    /\ ListingAnswered
    /\ listing.services = <<Service("s1"), Service("s2")>>
    /\ listing.routes = <<Route("r1", "s3"), Route("r2", "s2")>>
    /\ listing.result.data = <<Api(Service("s2"), Route("r2", "s2"))>>

\* C14: kongGetAllApis hands back exactly one composite entity for each
\* fetched route whose service reference is the id of a fetched service, in
\* route order, made of that route and that service, and nothing else:
\* routes that refer to an unknown service id are skipped and a service
\* without routes contributes nothing.
C14_OnePerKnownRoute ==
    ListingAnswered =>
        LET data == listing.result.data
        IN  /\ Len(data) = Len(KeptRoutes)
            /\ \A i \in DOMAIN data :
                   /\ data[i].route = KeptRoutes[i]
                   /\ data[i].k = "api"
                   /\ data[i].service.id = KeptRoutes[i].service
                   /\ \E j \in DOMAIN listing.services :
                          data[i].service = listing.services[j]

\* ------------------------------------------------------------------------
\* Properties of the statistics
\* ------------------------------------------------------------------------
IsMutating(action) == action.method # "GET"

\* The executor calls since the last resetStatistics that were not GETs.
MutatingCalls == SelectSeq(hist.made, IsMutating)

\* resetStatistics(true) was the last reset and getStatistics has not been
\* called since.
Retaining == hist.flag = "true" /\ ~hist.got

\* A PATCH, a GET and a DELETE since resetStatistics(true): the log holds the
\* PATCH and the DELETE.
C15_Witness ==
    /\ Retaining
    /\ Len(hist.made) = 3
    /\ hist.made[1].method = "PATCH"
    /\ hist.made[2].method = "GET"
    /\ hist.made[3].method = "DELETE"
    /\ statistics.actions = <<hist.made[1], hist.made[3]>>

\* C15: after resetStatistics(true) and before any getStatistics the action
\* log holds exactly the executor calls made since the reset that were not
\* GETs, in call order, each with its method, url and body; a GET never
\* appears in the log; after a resetStatistics without the flag the log
\* stays empty whatever calls are made.
C15_LogOfMutatingCalls ==
    /\ Retaining => statistics.actions = MutatingCalls
    /\ \A i \in DOMAIN statistics.actions : statistics.actions[i].method # "GET"
    /\ hist.flag = "false" => statistics.actions = << >>

\* After resetStatistics(true) and getStatistics: a mutating call and a
\* failed comparison that left no trace.
C16_Witness ==
    /\ hist.flag = "true" /\ hist.got
    /\ Len(MutatingCalls) > Len(statistics.actions)
    /\ hist.mismatches > Len(statistics.failedComparisons)

\* C16: getStatistics clears the retention flag: from a getStatistics call
\* until the next resetStatistics nothing is added to the action log or to
\* the mismatch list, whatever calls and comparisons are made; and after a
\* resetStatistics without the flag both lists are empty, also in what a
\* getStatistics then returns.
C16_GetStopsRecording ==
    /\ [](hist.got => ~keepChangingActions)
    /\ [][(hist.got /\ hist'.got) =>
             /\ statistics'.actions = statistics.actions
             /\ statistics'.failedComparisons = statistics.failedComparisons]_vars
    /\ [](hist.flag = "false" =>
             /\ statistics.actions = << >>
             /\ statistics.failedComparisons = << >>
             /\ hist.got =>
                    /\ hist.returned.actions = << >>
                    /\ hist.returned.failedComparisons = << >>)

\* ------------------------------------------------------------------------
\* Properties of matchObjects
\* ------------------------------------------------------------------------
\* This step is a call of matchObjects.
Matched == lastMatch'.n = lastMatch.n + 1

ComparedPair ==
    [apiObject |-> lastMatch.apiObject, kongObject |-> lastMatch.kongObject]

RECURSIVE Extends(_, _)
\* observed is desired with extra properties added, at any depth.
Extends(observed, desired) ==
    IF desired.k # "mapping"
    THEN observed = desired
    ELSE /\ observed.k = "mapping"
         /\ Names(desired) \subseteq Names(observed)
         /\ \A name \in Names(desired) :
                Extends(Prop(observed, name), Prop(desired, name))

RECURSIVE Missing(_, _)
\* desired has a property, at some depth, that observed has not.
Missing(desired, observed) ==
    /\ desired.k = "mapping"
    /\ \E name \in Names(desired) :
           \/ observed.k # "mapping"
           \/ name \notin Names(observed)
           \/ Missing(Prop(desired, name), Prop(observed, name))

\* Recording is on; observed has one property more at the top and one more
\* in the nested mapping.
C17_Witness ==
    /\ lastMatch.n = 1
    /\ keepChangingActions
    /\ lastMatch.apiObject = Mapping(<<<<"a", Mapping(<<<<"b", Num(1)>>>>)>>>>)
    /\ lastMatch.kongObject =
          Mapping(<<<<"a", Mapping(<<<<"a", Num(1)>>, <<"b", Num(1)>>>>)>>,
                    <<"b", Num(2)>>>>)
    /\ lastMatch.returnValue = "true"
    /\ statistics.failedComparisons = << >>

\* C17: when observed is desired with extra properties added at any depth,
\* matchObjects returns true and appends nothing to the mismatch list.
C17_ExtraPropertiesMatch ==
    [][(Matched /\ Extends(lastMatch.kongObject, lastMatch.apiObject)) =>
          /\ lastMatch'.returnValue = "true"
          /\ statistics'.failedComparisons = statistics.failedComparisons]_vars

\* C18: when desired has a property, at any depth, that observed has not,
\* matchObjects returns false, and with recording enabled the pair is
\* appended to the mismatch list exactly once by that call.
C18_MissingPropertyMismatch ==
    [][(Matched /\ Missing(lastMatch.apiObject, lastMatch.kongObject)) =>
          /\ lastMatch'.returnValue = "false"
          /\ statistics'.failedComparisons =
                 IF keepChangingActions
                 THEN Append(statistics.failedComparisons, ComparedPair)
                 ELSE statistics.failedComparisons]_vars

\* ------------------------------------------------------------------------
\* Properties of the plan cache and of the user names
\* ------------------------------------------------------------------------
\* The calls that asked the backend for the plans.
Fetches == {i \in DOMAIN planCalls : planCalls[i].fetched}

NoFetchFailed == \A i \in DOMAIN planCalls : planCalls[i].err # BackendError

\* The call was answered from the catalog.
AnsweredFrom(call, catalog) ==
    IF call.kind = "getPlans"
    THEN call.result = catalog
    ELSE \/ call.err = UnknownPlanError(call.planId)
         \/ \E i \in DOMAIN catalog.plans : call.result = catalog.plans[i]

\* C19: the plan catalog is fetched once: in any interleaving of getPlans
\* and getPlan calls whose backend fetches succeed, exactly one fetch is
\* issued and every call is answered with the one cached catalog.
C19_FetchedOnce ==
    (planCalls # << >> /\ NoFetchFailed) =>
        /\ Cardinality(Fetches) = 1
        /\ \A i \in DOMAIN planCalls :
               planCalls[i].st = "answered" =>
                   /\ planCalls[i].cbCount = 1
                   /\ AnsweredFrom(planCalls[i], plans)

\* A text has the separator in it.
HasSeparator(id) == \E i \in DOMAIN id : id[i] = "$"

BothNamed == Len(names.userNames) = 2

\* C20 as stated: makeUserName gives different user names to any two
\* pairings of an application id and an API id that differ.
C20_UniquePerPairing ==
    (BothNamed /\ names.pairs[1] # names.pairs[2]) =>
        names.userNames[1] # names.userNames[2]

\* The pairings (a, aa) and (aa, a) and their user names.
C20_Witness ==
    /\ BothNamed
    /\ names.pairs = <<<< <<"a">>, <<"a", "a">> >>, << <<"a", "a">>, <<"a">> >> >>
    /\ names.userNames = << <<"a", "$", "a", "a">>, <<"a", "a", "$", "a">> >>

\* C20, amended: makeUserName gives different user names to any two
\* pairings that differ when neither application id has a '$' in it, or
\* neither API id has.
C20_UniqueWithoutSeparator ==
    (/\ BothNamed
     /\ names.pairs[1] # names.pairs[2]
     /\ \/ ~HasSeparator(names.pairs[1][1]) /\ ~HasSeparator(names.pairs[2][1])
        \/ ~HasSeparator(names.pairs[1][2]) /\ ~HasSeparator(names.pairs[2][2])) =>
        names.userNames[1] # names.userNames[2]

\* ------------------------------------------------------------------------
\* Properties of concurrent calls
\* ------------------------------------------------------------------------
\* Some call is waiting between a failed attempt and its retry.
RetryPending == \E d \in DOMAIN calls : calls[d].st = "waiting"

\* C21: with several logical calls running at once, while any one of them is
\* waiting between a failed attempt and its scheduled retry, every logical
\* call started in that window fails fast on the gate, without a request
\* going out, whatever the other calls were answered meanwhile.
C21_FailFastWhileRetryPending ==
    [][\A c \in (DOMAIN calls') \ (DOMAIN calls) :
          RetryPending =>
              /\ calls'[c].st = "done"
              /\ calls'[c].cbCount = 1
              /\ calls'[c].err.k = "gate"]_vars

\* ------------------------------------------------------------------------
\* Properties of the verb counters
\* ------------------------------------------------------------------------
Methods == {"GET", "POST", "PATCH", "DELETE"}

\* The counter of the verb; a verb not counted yet has no counter.
Counted(method) ==
    IF method \in DOMAIN statistics.counters
    THEN statistics.counters[method]
    ELSE 0

\* The logical executor calls made with the verb since the last
\* resetStatistics, or since the start when there was none.
MadeSinceReset(method) ==
    IF hist.flag = "none"
    THEN Cardinality({c \in DOMAIN calls : calls[c].method = method})
    ELSE Cardinality({i \in DOMAIN hist.made : hist.made[i].method = method})

\* Since the reset two POSTs: one on its third attempt, the other failed
\* fast on the gate the first one closed.
C22_Witness ==
    /\ hist.flag # "none"
    /\ Len(hist.made) = 2
    /\ \E c, d \in RawIds :
          /\ calls[c].method = "POST" /\ calls[c].st = "inflight"
          /\ calls[c].attempt = 2
          /\ calls[d].method = "POST" /\ calls[d].err.k = "gate"
    /\ Counted("POST") = 2

\* C22: each verb counter equals the number of logical executor calls made
\* with that verb since the last resetStatistics: a call counts once however
\* many attempts it takes, and counts also when it fails fast on the gate.
C22_CountedOncePerCall ==
    \A method \in Methods : Counted(method) = MadeSinceReset(method)

\* ------------------------------------------------------------------------
\* Totality of matchObjects
\* ------------------------------------------------------------------------
\* desired is not contained in observed: somewhere a property is missing or
\* holds a value of another type or another value.
Mismatch == ~Extends(lastMatch.kongObject, lastMatch.apiObject)

\* C23: matchObjects is total on mismatches: whatever desired and observed
\* are made of, it returns a boolean, and false on a mismatch at any depth;
\* where desired holds a non-empty mapping and observed holds null the
\* result is false, no exception.
C23_TotalOnMismatches ==
    [][Matched =>
          /\ lastMatch'.returnValue \in {"true", "false"}
          /\ Mismatch => lastMatch'.returnValue = "false"]_vars

====
